---- MODULE Spec2Model ----
(***************************************************************************)
(* Verification model of the resumable video-processing pipeline:          *)
(*   - the persisted pipeline state (services/intermediate_service.py),    *)
(*   - the orchestrator process_video_task and its entry points            *)
(*     (routers/video.py),                                                 *)
(*   - the audio segmentation planner (services/vad_service.py),           *)
(*   - the progress broadcast hub (routers/websocket.py).                  *)
(*                                                                         *)
(* The specifications of the module: Spec (one task driven through runs    *)
(* and resumes by the entry points), SpecCall (process_video_task called   *)
(* directly), SpecDamaged (a state file that cannot be parsed), SpecStore  *)
(* (the state store called directly), SpecFile (the state file under saves *)
(* and loads), SpecTwo (two tasks side by side), SpecPlan (the planner),   *)
(* SpecHub (the hub with subscribers that connect and disconnect while a   *)
(* publish is in flight), SpecWords (the hotword merge) and SpecSnap (the  *)
(* progress snapshot).  Each specification keeps the variables of the      *)
(* others at their idle values.                                            *)
(*                                                                         *)
(* A time stamp is None or Stamp (some time), and the payload of a         *)
(* checkpoint names the run that wrote it (0: written before the model's   *)
(* first run).                                                             *)
(* Python's None is the string "None", and <<>> for file references.       *)
(***************************************************************************)
EXTENDS Integers, Sequences, FiniteSets, TLC

VARIABLES
    \* ---- pipeline (Spec) ----
    state,            \* content of pipeline_state.json, or NoState
    checkpoint,       \* stage name -> payload of stage_<id>_<name>.json, or NoPayload
    history,          \* history record of the task: [exists, created_at]
    processing_tasks, \* processing_tasks[task_id]: [status, stage]
    pc,               \* run -> the await at which process_video_task stands
    cur,              \* run -> id of the stage section the run is in
    start_stage,      \* run -> argument start_stage
    user_hotwords,    \* run -> argument user_hotwords
    run,              \* run -> what the run has done so far
    runs,             \* number of runs scheduled so far
    faults,           \* number of exceptions raised so far
    \* ---- planner (SpecPlan) ----
    plan,
    \* ---- hub (SpecHub) ----
    hub,
    \* ---- hotword merge (SpecWords) ----
    words,
    \* ---- progress snapshot (SpecSnap) ----
    snap,
    \* ---- state store called directly (SpecStore) ----
    call,             \* the last call: its name and the state it found
    \* ---- the state file under saves and loads (SpecFile) ----
    file,
    \* ---- two tasks side by side (SpecTwo) ----
    two

vars == <<state, checkpoint, history, processing_tasks, pc, cur,
          start_stage, user_hotwords, run, runs, faults, plan, hub, words, snap, call,
          file, two>>
\* the arguments of the run, and the variables of the other specifications
args == <<start_stage, user_hotwords>>
others == <<plan, hub, words, snap, call, file, two>>
\* the variables of the pipeline and of the pure-function specifications
pipeVars0 == <<state, checkpoint, history, processing_tasks, pc, cur,
               start_stage, user_hotwords, run, runs, faults, words, snap, call>>
\* what the planner and the hub leave alone
pipeVars == <<state, checkpoint, history, processing_tasks, pc, cur,
              start_stage, user_hotwords, run, runs, faults, words, snap, call,
              file, two>>

(***************************************************************************)
(* Bounds of the model.                                                    *)
(***************************************************************************)
\* runs scheduled for the task
MaxRuns == 2
Runs == 1..MaxRuns
\* exceptions raised by collaborators, publishes and checkpoint reads
MaxFaults == 1
\* planner: times are counted in half units, so that the midpoint of two
\* inputs (which are whole units, that is even numbers) is exact
MaxUnits == 6
MaxCeiling == 4
MaxSpeech == 3
\* hub: websocket connections opened for the task, and events published
MaxSubs == 3
MaxEvents == 2
\* hotword merge: length of each of the three hotword lists
MaxWords == 2

(***************************************************************************)
(* Stage catalog and stage status.                                         *)
(***************************************************************************)
PENDING == "pending"
IN_PROGRESS == "in_progress"
COMPLETED == "completed"
FAILED == "failed"
StageStatus == {PENDING, IN_PROGRESS, COMPLETED, FAILED}

STAGE_DEFINITIONS ==
    << [id |-> 1, name |-> "extract_audio"],
       [id |-> 2, name |-> "asr"],
       [id |-> 3, name |-> "text_correct"],
       [id |-> 4, name |-> "align"],
       [id |-> 5, name |-> "subtitle"],
       [id |-> 6, name |-> "section_split"],
       [id |-> 7, name |-> "lecture_gen"] >>

NumStages == Len(STAGE_DEFINITIONS)
StageIds == 1..NumStages
StageNames == {STAGE_DEFINITIONS[i].name : i \in StageIds}

None == "None"
NoTime == None
Stamp == "t"
NoFile == <<>>
NoState == [absent |-> TRUE]
\* a pipeline_state.json that exists and cannot be parsed
Corrupt == [unparseable |-> TRUE]
NoPayload == [absent |-> TRUE]

\* get_stage_id: the id of a stage name, 0 for Python's None (unknown name)
get_stage_id(stage_name) ==
    IF \E i \in StageIds : STAGE_DEFINITIONS[i].name = stage_name
    THEN (CHOOSE i \in StageIds : STAGE_DEFINITIONS[i].name = stage_name)
    ELSE 0

\* get_stage_name: the name of a stage id
get_stage_name(stage_id) == STAGE_DEFINITIONS[stage_id].name

(***************************************************************************)
(* IntermediateService: operations on the persisted state, as functions    *)
(* from the stored state to the state they save.                           *)
(***************************************************************************)

\* load_pipeline_state: None (NoState) for a missing file and for a file
\* that cannot be parsed
load_pipeline_state(st) == IF st = Corrupt THEN NoState ELSE st

\* an initialisation that numbers the records from 0, as the index of an
\* enumeration would (the variant the catalog ids rule out)
initialize_pipeline_from_zero(hotwords, duration) ==
    [ stages |-> [ i \in StageIds |->
                     [ stage_id |-> i - 1,
                       stage_name |-> STAGE_DEFINITIONS[i].name,
                       status |-> PENDING,
                       started_at |-> NoTime,
                       completed_at |-> NoTime,
                       result_file |-> NoFile,
                       error |-> None ] ],
      hotwords |-> hotwords,
      duration |-> duration ]

\* initialize_pipeline: every stage record pending, nothing else set
initialize_pipeline(hotwords, duration) ==
    [ stages |-> [ i \in StageIds |->
                     [ stage_id |-> STAGE_DEFINITIONS[i].id,
                       stage_name |-> STAGE_DEFINITIONS[i].name,
                       status |-> PENDING,
                       started_at |-> NoTime,
                       completed_at |-> NoTime,
                       result_file |-> NoFile,
                       error |-> None ] ],
      hotwords |-> hotwords,
      duration |-> duration ]

\* an update that records no checkpoint reference on completion (the variant
\* the reference of a completed record rules out)
UpdatedRecordNoFile(stage, stage_name, status, error, now) ==
    LET s1 == [stage EXCEPT !.status = status]
        s2 == IF status = IN_PROGRESS
              THEN [s1 EXCEPT !.started_at = now, !.error = None]
              ELSE IF status \in {COMPLETED, FAILED}
                   THEN [s1 EXCEPT !.completed_at = now]
                   ELSE s1
    IN IF error # None /\ error # ""
       THEN [s2 EXCEPT !.error = error]
       ELSE s2

\* the branch of update_stage_status taken for the record whose name matches
UpdatedRecord(stage, stage_name, status, error, now) ==
    LET s1 == [stage EXCEPT !.status = status]
        s2 == IF status = IN_PROGRESS
              THEN [s1 EXCEPT !.started_at = now, !.error = None]
              ELSE IF status \in {COMPLETED, FAILED}
                   THEN [s1 EXCEPT !.completed_at = now]
                   ELSE s1
        \* "if error:" is false for None and for the empty string
        s3 == IF error # None /\ error # ""
              THEN [s2 EXCEPT !.error = error]
              ELSE s2
        s4 == IF status = COMPLETED
              THEN [s3 EXCEPT !.result_file = <<stage.stage_id, stage_name>>]
              ELSE s3
    IN s4

\* update_stage_status: load, change the first record named stage_name, save
update_stage_status(st, stage_name, status, error, now) ==
    IF load_pipeline_state(st) = NoState
    THEN st
    ELSE IF \E i \in StageIds : st.stages[i].stage_name = stage_name
         THEN LET i == CHOOSE j \in StageIds :
                          /\ st.stages[j].stage_name = stage_name
                          /\ \A m \in 1..(j-1) : st.stages[m].stage_name # stage_name
              IN [st EXCEPT !.stages[i] =
                      UpdatedRecord(st.stages[i], stage_name, status, error, now)]
         ELSE st

\* update_duration
update_duration(st, duration) ==
    IF load_pipeline_state(st) = NoState THEN st ELSE [st EXCEPT !.duration = duration]

\* mark_stages_for_reprocess: records with id >= the start id back to pending
mark_stages_for_reprocess(st, start_stage_name) ==
    IF load_pipeline_state(st) = NoState
    THEN st
    ELSE IF get_stage_id(start_stage_name) = 0
         THEN st
         ELSE [st EXCEPT !.stages =
                 [ i \in StageIds |->
                     IF st.stages[i].stage_id >= get_stage_id(start_stage_name)
                     THEN [st.stages[i] EXCEPT !.status = PENDING,
                                               !.started_at = NoTime,
                                               !.completed_at = NoTime,
                                               !.error = None,
                                               !.result_file = NoFile]
                     ELSE st.stages[i] ] ]

\* a check that also asks the target stage itself to be completed ("<=" for
\* "<": the variant the claim about resumption rules out)
can_start_from_stage_inclusive(st, stage_name) ==
    IF load_pipeline_state(st) = NoState
    THEN FALSE
    ELSE IF get_stage_id(stage_name) = 0
         THEN FALSE
         ELSE IF get_stage_id(stage_name) = 1
              THEN TRUE
              ELSE \A i \in StageIds :
                     st.stages[i].stage_id <= get_stage_id(stage_name)
                       => st.stages[i].status = COMPLETED

\* can_start_from_stage
can_start_from_stage(st, stage_name) ==
    IF load_pipeline_state(st) = NoState
    THEN FALSE
    ELSE IF get_stage_id(stage_name) = 0
         THEN FALSE
         ELSE IF get_stage_id(stage_name) = 1
              THEN TRUE
              ELSE \A i \in StageIds :
                     st.stages[i].stage_id < get_stage_id(stage_name)
                       => st.stages[i].status = COMPLETED

\* a load that answers a missing or unreadable file with an empty default
\* instead of None (the variant the checkpoint contract rules out)
load_stage_result_default(cp, stage_name, readable) ==
    IF cp[stage_name] = NoPayload \/ ~readable
    THEN [by |-> 0]
    ELSE cp[stage_name]

\* load_stage_result: the payload, or NoPayload (Python's None) for an unknown
\* name, a missing file, or a file that cannot be read (readable is FALSE for
\* a file removed or damaged outside the program)
load_stage_result(cp, stage_name, readable) ==
    IF get_stage_id(stage_name) = 0
    THEN NoPayload
    ELSE IF cp[stage_name] = NoPayload
         THEN NoPayload
         ELSE IF readable THEN cp[stage_name] ELSE NoPayload

\* a save that keeps a file that already exists (first write wins)
save_stage_result_keep(cp, stage_name, data) ==
    IF cp[stage_name] = NoPayload THEN [cp EXCEPT ![stage_name] = data] ELSE cp

\* save_stage_result: overwrite the stage's file
save_stage_result(cp, stage_name, data) ==
    [cp EXCEPT ![stage_name] = data]


(***************************************************************************)
(* Inputs of the requests and outcomes of the collaborators.               *)
(***************************************************************************)
\* hotword lists a request may carry (<<>> also stands for "not supplied")
HotwordChoices == { <<>>, <<"h1">> }
\* start_stage values a reprocess request may carry: a stage whose collaborator
\* is called once, the last stage, and a name that is no stage
RequestStages == {"text_correct", "lecture_gen", "no_such_stage"}
\* str(e) of an exception raised by a collaborator
ErrTexts == {"boom"}
MissingText == "cannot load stage result"
PublishText == "Set changed size during iteration"

NoTask == [absent |-> TRUE]
\* an entry of processing_tasks written by a run or by reprocess_video: it
\* carries no video_path and no output_dir
TaskEntry(status, stage) == [status |-> status, stage |-> stage, paths |-> FALSE]
\* no collaborator has raised
NoRaise == [stage |-> 0, text |-> None]
\* log: what the run has done for its stages, in order, as <<operation, stage id>>
NoRun == [started |-> {}, invoked |-> {}, raised |-> NoRaise, missing |-> 0,
          log |-> <<>>]

\* "get_stage_id(start_stage) or 1"
start_stage_id(r) ==
    IF get_stage_id(start_stage[r]) = 0 THEN 1 ELSE get_stage_id(start_stage[r])

\* the payload a stage writes in run r
Payload(r) == [by |-> r]

(***************************************************************************)
(* Entry points (routers/video.py).  A request is served in one step; the  *)
(* run it schedules is the next unused one.                                *)
(***************************************************************************)

\* the background task is added: run runs+1 is scheduled
Schedule(stage_name, hw) ==
    /\ runs' = runs + 1
    /\ pc' = [pc EXCEPT ![runs + 1] = "scheduled"]
    /\ start_stage' = [start_stage EXCEPT ![runs + 1] = stage_name]
    /\ user_hotwords' = [user_hotwords EXCEPT ![runs + 1] = hw]

\* start_processing: a run of an uploaded task, from extract_audio; 404 for
\* an unknown task, 400 for a status other than uploaded and pending and for
\* an entry without its paths
start_processing(hw) ==
    /\ runs < MaxRuns
    /\ processing_tasks # NoTask
    /\ processing_tasks.status \in {"uploaded", "pending"}
    /\ processing_tasks.paths
    /\ processing_tasks' = [processing_tasks EXCEPT !.status = "pending",
                                                    !.stage = "init"]
    /\ Schedule("extract_audio", hw)
    /\ UNCHANGED <<state, checkpoint, history, cur, run, faults, others>>

\* reprocess_video: 404 without a history record, 400 for an unknown stage
\* name or an unfinished predecessor; otherwise the run is scheduled
reprocess_video(stage_name, hw) ==
    /\ runs < MaxRuns
    /\ IF /\ history.exists
          /\ stage_name \in StageNames
          /\ can_start_from_stage(state, stage_name)
       THEN /\ processing_tasks' = TaskEntry("pending", "init")
            /\ Schedule(stage_name, hw)
            /\ UNCHANGED <<state, checkpoint, history, cur, run, faults, others>>
       ELSE UNCHANGED vars

\* a query that rebuilds the state whether or not one was loaded
NoStateLoadedEver(st) == TRUE

\* "if not state:" after load_pipeline_state
NoStateLoaded(st) == load_pipeline_state(st) = NoState

\* the fallback state of get_pipeline_state: a new state whose stages with a
\* checkpoint file are completed and whose other stages are pending
fallback_state(cp, h) ==
    LET init == initialize_pipeline(<<>>, "known")
    IN [init EXCEPT !.stages =
          [ i \in StageIds |->
              IF cp[init.stages[i].stage_name] # NoPayload
              THEN [init.stages[i] EXCEPT
                      !.status = COMPLETED,
                      !.completed_at = h.created_at,
                      !.result_file = <<init.stages[i].stage_id,
                                        init.stages[i].stage_name>>]
              ELSE [init.stages[i] EXCEPT !.status = PENDING] ] ]

\* get_pipeline_state: returns the stored state; for a history record without
\* a stored state it creates one from the checkpoint files that exist
get_pipeline_state ==
    /\ history.exists
    /\ state' = IF NoStateLoaded(state)
                THEN fallback_state(checkpoint, history)
                ELSE state
    /\ UNCHANGED <<checkpoint, history, processing_tasks, pc, cur, args, run,
                   runs, faults, others>>

(***************************************************************************)
(* process_video_task (routers/video.py): one action per stretch of code   *)
(* that runs from one await to the next, for each run r.  Runs of one task *)
(* interleave at their awaits.  A publish (send_progress) either returns   *)
(* or raises the RuntimeError of send_to_task's loop over a subscriber set *)
(* that changed while a send was awaited.                                  *)
(***************************************************************************)

\* the except block: the stage named by the tracker is set to failed
FailedState(st, tasks, err, now) ==
    update_stage_status(st, IF tasks = NoTask THEN "unknown" ELSE tasks.stage,
                        FAILED, err, now)

\* an exception with text err reaches the except block, which runs up to its
\* await of the error publish
Fail(r, err) ==
    /\ state' = FailedState(state, processing_tasks, err, Stamp)
    /\ processing_tasks' = TaskEntry("failed", "error")
    /\ pc' = [pc EXCEPT ![r] = "puberr"]

\* the state saved by lines 70-83: initialise, or reset and update the hotwords
PreparedState(st, stage_name, hw) ==
    IF load_pipeline_state(st) = NoState
    THEN initialize_pipeline(hw, None)
    ELSE IF hw # <<>>
         \* the state loaded before the reset is written back with the hotwords
         THEN [st EXCEPT !.hotwords = hw]
         ELSE mark_stages_for_reprocess(st, stage_name)

\* the "else" branches of the stages before the start stage: the first stage
\* whose checkpoint cannot be loaded, 0 if all are loaded; bad is the stage
\* whose file has been removed or damaged outside the program (0: none)
FirstMissing(cp, S, bad) ==
    LET missing == { j \in 1..(S-1) :
                       load_stage_result(cp, get_stage_name(j), j # bad) = NoPayload }
    IN IF missing = {} THEN 0
       ELSE CHOOSE j \in missing : \A m \in missing : j <= m

\* the first stage before S whose checkpoint file is absent or unreadable
FirstAbsent(cp, S, bad) ==
    LET absent == { j \in 1..(S-1) : cp[get_stage_name(j)] = NoPayload \/ j = bad }
    IN IF absent = {} THEN 0
       ELSE CHOOSE j \in absent : \A m \in absent : j <= m

\* "if start_stage_id <= k": update_stage_status(k, IN_PROGRESS)
StageBegin(st, k, now) ==
    update_stage_status(st, get_stage_name(k), IN_PROGRESS, None, now)

\* lines 59-108: the run starts, prepares the persisted state, loads the
\* checkpoints of the stages before the start stage and begins the start stage
RunBegin(r) ==
    /\ pc[r] = "scheduled"
    /\ \E bad \in 0..(NumStages - 1) :
       /\ bad < start_stage_id(r)
       /\ bad # 0 => faults < MaxFaults
       /\ faults' = IF bad # 0 THEN faults + 1 ELSE faults
       /\ LET S == start_stage_id(r)
              prepared == PreparedState(state, start_stage[r], user_hotwords[r])
              started == TaskEntry("processing", "init")
          IN /\ run' = [run EXCEPT ![r].missing = FirstAbsent(checkpoint, S, bad),
                                   ![r].started =
                                       IF FirstMissing(checkpoint, S, bad) = 0
                                       THEN {S} ELSE {},
                                   ![r].log =
                                       IF FirstMissing(checkpoint, S, bad) = 0
                                       THEN << <<"in_progress", S>> >> ELSE <<>>]
             /\ IF FirstMissing(checkpoint, S, bad) = 0
                THEN /\ state' = StageBegin(prepared, S, Stamp)
                     /\ processing_tasks' = started
                     /\ pc' = [pc EXCEPT ![r] = "pub0"]
                     /\ cur' = [cur EXCEPT ![r] = S]
                ELSE /\ state' = FailedState(prepared, started, MissingText, Stamp)
                     /\ processing_tasks' = TaskEntry("failed", "error")
                     /\ pc' = [pc EXCEPT ![r] = "puberr"]
                     /\ UNCHANGED cur
    \* user_hotwords is not read after line 97
    /\ user_hotwords' = [user_hotwords EXCEPT ![r] = <<>>]
    /\ UNCHANGED <<checkpoint, history, start_stage, runs, others>>

\* the 0% publish returns; the tracker is set to the stage
Publish0(r) ==
    /\ pc[r] = "pub0"
    /\ processing_tasks' = [processing_tasks EXCEPT !.stage = get_stage_name(cur[r])]
    /\ pc' = [pc EXCEPT ![r] = "collab"]
    /\ run' = [run EXCEPT ![r].log = Append(@, <<"pub0", cur[r]>>)]
    /\ UNCHANGED <<state, checkpoint, history, cur, args, runs, faults, others>>

\* the 0% publish raises
Publish0Raises(r) ==
    /\ pc[r] = "pub0"
    /\ faults < MaxFaults
    /\ faults' = faults + 1
    /\ Fail(r, PublishText)
    /\ UNCHANGED <<checkpoint, history, cur, args, run, runs, others>>

\* the stage's work is done: status completed (and the duration after stage 1)
StageSaved(st, stage_name, now) ==
    update_stage_status(
        IF stage_name = "extract_audio" THEN update_duration(st, "known") ELSE st,
        stage_name, COMPLETED, None, now)

\* the two writes that follow the collaborator's return with the status
\* before the checkpoint (the variant the order of the code rules out)
StageWritesStatusFirst(k) == << <<"completed", k>>, <<"checkpoint", k>> >>

\* the two writes that follow the collaborator's return, in the order of the
\* code: save_stage_result, then update_stage_status(COMPLETED)
StageWrites(k) == << <<"checkpoint", k>>, <<"completed", k>> >>

\* the collaborator returns: checkpoint saved, status completed
Collaborate(r) ==
    /\ pc[r] = "collab"
    /\ checkpoint' = save_stage_result(checkpoint, get_stage_name(cur[r]), Payload(r))
    /\ state' = StageSaved(state, get_stage_name(cur[r]), Stamp)
    /\ run' = [run EXCEPT ![r].invoked = @ \cup {get_stage_name(cur[r])},
                          ![r].log = Append(@, <<"invoke", cur[r]>>)
                                     \o StageWrites(cur[r])]
    /\ pc' = [pc EXCEPT ![r] = "pub100"]
    /\ UNCHANGED <<history, processing_tasks, cur, args, runs, faults, others>>

\* stages whose collaborator is called per segment inside "try: ... except:"
SegmentStages == {"asr", "align"}

\* the collaborator raises with text err.  In stages asr and align a raise of
\* the per-segment call (inner) is caught and the stage goes on; any other
\* raise reaches the except block of the run
CollaboratorRaises(r, err, inner) ==
    /\ pc[r] = "collab"
    /\ faults < MaxFaults
    /\ faults' = faults + 1
    /\ inner => get_stage_name(cur[r]) \in SegmentStages
    /\ IF inner
       THEN /\ checkpoint' = save_stage_result(checkpoint, get_stage_name(cur[r]),
                                               Payload(r))
            /\ state' = StageSaved(state, get_stage_name(cur[r]), Stamp)
            /\ pc' = [pc EXCEPT ![r] = "pub100"]
            /\ UNCHANGED processing_tasks
       ELSE /\ Fail(r, err)
            /\ UNCHANGED checkpoint
    /\ run' = [run EXCEPT ![r].invoked = @ \cup {get_stage_name(cur[r])},
                          ![r].raised = [stage |-> cur[r], text |-> err],
                          ![r].log = Append(@, <<"invoke", cur[r]>>)
                                     \o (IF inner THEN StageWrites(cur[r]) ELSE <<>>)]
    /\ UNCHANGED <<history, cur, args, runs, others>>

\* a publish between 0% and 100% (stages asr and align) raises
PublishMidRaises(r) ==
    /\ pc[r] = "collab"
    /\ get_stage_name(cur[r]) \in SegmentStages
    /\ faults < MaxFaults
    /\ faults' = faults + 1
    /\ Fail(r, PublishText)
    /\ UNCHANGED <<checkpoint, history, cur, args, run, runs, others>>

\* the 100% publish returns: the next stage begins; after the last stage the
\* history record is written and the task entry set to completed
Publish100(r) ==
    /\ pc[r] = "pub100"
    /\ IF cur[r] < NumStages
       THEN /\ state' = StageBegin(state, cur[r] + 1, Stamp)
            /\ cur' = [cur EXCEPT ![r] = @ + 1]
            /\ run' = [run EXCEPT ![r].started = @ \cup {cur[r] + 1},
                                  ![r].log = @ \o << <<"pub100", cur[r]>>,
                                                     <<"in_progress", cur[r] + 1>> >>]
            /\ pc' = [pc EXCEPT ![r] = "pub0"]
            /\ UNCHANGED <<history, processing_tasks>>
       ELSE /\ history' = [exists |-> TRUE, created_at |-> Stamp]
            /\ processing_tasks' = TaskEntry("completed", "done")
            /\ pc' = [pc EXCEPT ![r] = "pubdone"]
            /\ run' = [run EXCEPT ![r].log = Append(@, <<"pub100", cur[r]>>)]
            /\ UNCHANGED <<state, cur>>
    /\ UNCHANGED <<checkpoint, args, runs, faults, others>>

\* the 100% publish raises
Publish100Raises(r) ==
    /\ pc[r] = "pub100"
    /\ faults < MaxFaults
    /\ faults' = faults + 1
    /\ Fail(r, PublishText)
    /\ UNCHANGED <<checkpoint, history, cur, args, run, runs, others>>

\* the run returns: its arguments and locals are gone
RunEnd(r) ==
    /\ pc' = [pc EXCEPT ![r] = "ended"]
    /\ cur' = [cur EXCEPT ![r] = 1]
    /\ start_stage' = [start_stage EXCEPT ![r] = "extract_audio"]
    /\ user_hotwords' = [user_hotwords EXCEPT ![r] = <<>>]
    /\ run' = [run EXCEPT ![r] = NoRun]

\* the done publish returns: the run ends
PublishDone(r) ==
    /\ pc[r] = "pubdone"
    /\ RunEnd(r)
    /\ UNCHANGED <<state, checkpoint, history, processing_tasks, runs, faults, others>>

\* the done publish raises
PublishDoneRaises(r) ==
    /\ pc[r] = "pubdone"
    /\ faults < MaxFaults
    /\ faults' = faults + 1
    /\ Fail(r, PublishText)
    /\ UNCHANGED <<checkpoint, history, cur, args, run, runs, others>>

\* the error publish returns or raises: the run ends
PublishError(r) ==
    /\ pc[r] = "puberr"
    /\ RunEnd(r)
    /\ UNCHANGED <<state, checkpoint, history, processing_tasks, runs, faults, others>>

(***************************************************************************)
(* Spec: one task, from upload or from an old history record.              *)
(***************************************************************************)
PlanIdle == [phase |-> "off"]
HubIdle == [phase |-> "off"]
WordsIdle == [phase |-> "off"]
SnapIdle == [phase |-> "off"]
NoCall == [op |-> "none", before |-> NoState]
FileIdle == [phase |-> "off"]
TwoIdle == [phase |-> "off"]

\* a task just uploaded: nothing persisted
InitFresh ==
    /\ state = NoState
    /\ checkpoint = [n \in StageNames |-> NoPayload]
    /\ history = [exists |-> FALSE, created_at |-> NoTime]
    /\ processing_tasks = [status |-> "uploaded", stage |-> "init", paths |-> TRUE]

\* a history record of an earlier version: checkpoint files, no stored state
InitOld ==
    /\ state = NoState
    /\ checkpoint = [n \in StageNames |-> Payload(0)]
    /\ history = [exists |-> TRUE, created_at |-> Stamp]
    /\ processing_tasks = NoTask

\* no run has been scheduled
InitRuns ==
    /\ pc = [r \in Runs |-> "idle"]
    /\ cur = [r \in Runs |-> 1]
    /\ start_stage = [r \in Runs |-> "extract_audio"]
    /\ user_hotwords = [r \in Runs |-> <<>>]
    /\ run = [r \in Runs |-> NoRun]
    /\ runs = 0
    /\ faults = 0

Init ==
    /\ InitFresh \/ InitOld
    /\ InitRuns
    /\ plan = PlanIdle
    /\ hub = HubIdle
    /\ words = WordsIdle
    /\ snap = SnapIdle
    /\ call = NoCall
    /\ file = FileIdle
    /\ two = TwoIdle

Next ==
    \/ \E hw \in HotwordChoices : start_processing(hw)
    \/ \E n \in RequestStages, hw \in HotwordChoices : reprocess_video(n, hw)
    \/ get_pipeline_state
    \/ \E r \in Runs : RunBegin(r)
    \/ \E r \in Runs : Publish0(r)
    \/ \E r \in Runs : Publish0Raises(r)
    \/ \E r \in Runs : Collaborate(r)
    \/ \E r \in Runs, err \in ErrTexts, inner \in BOOLEAN : CollaboratorRaises(r, err, inner)
    \/ \E r \in Runs : PublishMidRaises(r)
    \/ \E r \in Runs : Publish100(r)
    \/ \E r \in Runs : Publish100Raises(r)
    \/ \E r \in Runs : PublishDone(r)
    \/ \E r \in Runs : PublishDoneRaises(r)
    \/ \E r \in Runs : PublishError(r)

Spec == Init /\ [][Next]_vars

(***************************************************************************)
(* SpecCall: process_video_task called directly, with any start_stage, by  *)
(* a caller other than the entry points of the router.                     *)
(***************************************************************************)
\* start_stage values of a direct call: a stage, and a name that is no stage
CallStages == {"text_correct", "no_such_stage"}

\* process_video_task(task_id, video_path, output_dir, hw, stage_name) is
\* handed to the event loop
process_video_task(stage_name, hw) ==
    /\ runs < MaxRuns
    /\ Schedule(stage_name, hw)
    /\ UNCHANGED <<state, checkpoint, history, processing_tasks, cur, run, faults,
                   others>>

NextCall ==
    \/ \E n \in CallStages, hw \in HotwordChoices : process_video_task(n, hw)
    \/ get_pipeline_state
    \/ \E r \in Runs : RunBegin(r)
    \/ \E r \in Runs : Publish0(r)
    \/ \E r \in Runs : Publish0Raises(r)
    \/ \E r \in Runs : Collaborate(r)
    \/ \E r \in Runs, err \in ErrTexts, inner \in BOOLEAN : CollaboratorRaises(r, err, inner)
    \/ \E r \in Runs : PublishMidRaises(r)
    \/ \E r \in Runs : Publish100(r)
    \/ \E r \in Runs : Publish100Raises(r)
    \/ \E r \in Runs : PublishDone(r)
    \/ \E r \in Runs : PublishDoneRaises(r)
    \/ \E r \in Runs : PublishError(r)

SpecCall == Init /\ [][NextCall]_vars

(***************************************************************************)
(* SpecDamaged: a task processed before whose pipeline_state.json has been *)
(* damaged outside the program: the file exists and cannot be parsed.      *)
(* Runs are requested through reprocess_video or by a direct call of       *)
(* process_video_task.                                                     *)
(***************************************************************************)
InitDamaged ==
    /\ state = Corrupt
    /\ checkpoint = [n \in StageNames |-> Payload(0)]
    /\ history = [exists |-> TRUE, created_at |-> Stamp]
    /\ processing_tasks = NoTask
    /\ InitRuns
    /\ plan = PlanIdle
    /\ hub = HubIdle
    /\ words = WordsIdle
    /\ snap = SnapIdle
    /\ call = NoCall
    /\ file = FileIdle
    /\ two = TwoIdle

NextDamaged ==
    \/ \E n \in RequestStages, hw \in HotwordChoices : reprocess_video(n, hw)
    \/ \E n \in CallStages, hw \in HotwordChoices : process_video_task(n, hw)
    \/ get_pipeline_state
    \/ \E r \in Runs : RunBegin(r)
    \/ \E r \in Runs : Publish0(r)
    \/ \E r \in Runs : Publish0Raises(r)
    \/ \E r \in Runs : Collaborate(r)
    \/ \E r \in Runs, err \in ErrTexts, inner \in BOOLEAN : CollaboratorRaises(r, err, inner)
    \/ \E r \in Runs : PublishMidRaises(r)
    \/ \E r \in Runs : Publish100(r)
    \/ \E r \in Runs : Publish100Raises(r)
    \/ \E r \in Runs : PublishDone(r)
    \/ \E r \in Runs : PublishDoneRaises(r)
    \/ \E r \in Runs : PublishError(r)

SpecDamaged == InitDamaged /\ [][NextDamaged]_vars

\* C23: a run that begins while the persisted state cannot be parsed leaves
\* the state as it is (it is not replaced by a fresh one) and stands at its
\* error event with no stage begun.  (Checked under SpecDamaged.)
C23_CorruptStateSurfaced ==
    [][\A r \in Runs :
          (pc[r] = "scheduled" /\ pc'[r] # "scheduled" /\ state = Corrupt) =>
              /\ state' = Corrupt
              /\ pc'[r] = "puberr"
              /\ run'[r].started = {}]_vars

(***************************************************************************)
(* Properties of the pipeline (Spec).                                      *)
(***************************************************************************)

\* a record as a reset leaves it
Cleared(rec) ==
    /\ rec.status = PENDING
    /\ rec.started_at = NoTime
    /\ rec.completed_at = NoTime
    /\ rec.error = None
    /\ rec.result_file = NoFile

\* C1: when a run with start stage S is about to begin on a persisted state
\* that exists, the state saved by its resume preparation (the reset followed
\* by the optional hotword update) has every record with id >= S pending and
\* cleared, and every record with id < S as it was, with or without hotwords.
C1_ResumeResets ==
    \A r \in Runs :
        (pc[r] = "scheduled" /\ state # NoState) =>
            LET post == PreparedState(state, start_stage[r], user_hotwords[r])
            IN \A i \in StageIds :
                 IF i >= start_stage_id(r)
                 THEN Cleared(post.stages[i])
                 ELSE post.stages[i] = state.stages[i]

\* C2: when a run in which the collaborator of stage k raised has made its
\* last write, every stage before k is completed with its checkpoint present,
\* stage k is failed with the text of the exception, every later stage pending.
C2_FailureLeavesPrefix ==
    \A r \in Runs :
        (pc[r] \in {"pubdone", "puberr"} /\ run[r].raised # NoRaise) =>
            /\ state # NoState
            /\ \A i \in StageIds :
                 /\ i < run[r].raised.stage =>
                      /\ state.stages[i].status = COMPLETED
                      /\ checkpoint[get_stage_name(i)] # NoPayload
                 /\ i = run[r].raised.stage =>
                      /\ state.stages[i].status = FAILED
                      /\ state.stages[i].error = run[r].raised.text
                 /\ i > run[r].raised.stage =>
                      state.stages[i].status = PENDING

\* the transition table of the stage status
LegalTransition(a, b) ==
    \/ a = b
    \/ <<a, b>> \in { <<PENDING, IN_PROGRESS>>, <<IN_PROGRESS, COMPLETED>>,
                      <<IN_PROGRESS, FAILED>>, <<COMPLETED, PENDING>>,
                      <<FAILED, PENDING>> }

\* every record of b is reached from its record in a by a legal transition
LegalWrite(a, b) ==
    (a # NoState /\ b # NoState) =>
        \A i \in StageIds : LegalTransition(a.stages[i].status, b.stages[i].status)

\* the state saved between the two writes of a step: the beginning of a run
\* saves the prepared state and then the state with the start stage begun
SavedBetween ==
    IF \E r \in Runs : pc[r] = "scheduled" /\ pc'[r] # "scheduled"
    THEN LET r == CHOOSE q \in Runs : pc[q] = "scheduled" /\ pc'[q] # "scheduled"
         IN PreparedState(state, start_stage[r], user_hotwords[r])
    ELSE state

\* C3: the persisted status of a stage record changes only along the
\* transition table, in every step of every execution.
C3_LegalTransitions ==
    [][LegalWrite(state, SavedBetween) /\ LegalWrite(SavedBetween, state')]_vars

\* C4: whenever a run sets a stage n > 1 to in_progress, the persisted status
\* of stage n-1 is completed at that moment.
C4_PredecessorCompleted ==
    [][\A r \in Runs :
          (pc[r] # "pub0" /\ pc'[r] = "pub0" /\ cur'[r] > 1) =>
              state'.stages[cur'[r] - 1].status = COMPLETED]_vars

\* C5: in every reachable persisted state at most one stage record is
\* in_progress.
C5_OneInProgress ==
    state # NoState =>
        Cardinality({i \in StageIds : state.stages[i].status = IN_PROGRESS}) <= 1

\* C10: a run that met an absent or unreadable checkpoint of a stage before
\* its start stage stands at its error event, has set no stage to in_progress,
\* has invoked no collaborator and has written no checkpoint.
C10_MissingCheckpointFatal ==
    \A r \in Runs :
        run[r].missing # 0 =>
            /\ pc[r] = "puberr"
            /\ run[r].started = {}
            /\ run[r].invoked = {}
            /\ \A n \in StageNames :
                 checkpoint[n] # NoPayload => checkpoint[n].by # r

\* a run resumed from a later stage has met an unusable checkpoint
C10_Witness ==
    \E r \in Runs :
        /\ run[r].missing # 0
        /\ run[r].missing < start_stage_id(r)
        /\ pc[r] = "puberr"
        /\ processing_tasks.status = "failed"

\* C11: a run whose start_stage is no catalog stage name never sets a stage
\* in_progress and never invokes a collaborator: it is waiting to start or
\* stands at its error event.  (Checked under SpecCall; under Spec the entry
\* point reprocess_video schedules no such run.)
C11_InvalidStageRejected ==
    \A r \in Runs :
        (pc[r] # "idle" /\ pc[r] # "ended" /\ start_stage[r] \notin StageNames) =>
            /\ pc[r] \in {"scheduled", "puberr"}
            /\ run[r].started = {}
            /\ run[r].invoked = {}

\* C13: every persisted state has exactly one record per catalog stage, with
\* the ids 1..7 and the catalog names in catalog order.
C13_StagesMatchCatalog ==
    state # NoState =>
        /\ DOMAIN state.stages = StageIds
        /\ \A i \in StageIds :
              /\ state.stages[i].stage_id = STAGE_DEFINITIONS[i].id
              /\ state.stages[i].stage_name = STAGE_DEFINITIONS[i].name

\* a state that has been initialised, updated and reset: a failed record
\* after completed ones, with the hotwords of a request
C13_Witness ==
    /\ state # NoState
    /\ state.hotwords # <<>>
    /\ \E i \in StageIds : state.stages[i].status = COMPLETED
    /\ \E i \in StageIds : state.stages[i].status = FAILED
    /\ \E i \in StageIds : state.stages[i].status = PENDING

\* C16: on every persisted state and for every catalog stage name,
\* can_start_from_stage is true exactly when every record with a smaller id
\* than the stage is completed.
C16_CanStartIffPrefixCompleted ==
    state # NoState =>
        \A n \in StageNames :
            can_start_from_stage(state, n) <=>
                (\A i \in StageIds :
                    state.stages[i].stage_id < get_stage_id(n) =>
                        state.stages[i].status = COMPLETED)

\* a state that allows a start from a stage in the middle of the catalog and
\* refuses one from a later stage
C16_Witness ==
    /\ state # NoState
    /\ can_start_from_stage(state, "text_correct")
    /\ state.stages[3].status # COMPLETED
    /\ ~can_start_from_stage(state, "align")
    /\ state.stages[5].status = COMPLETED

\* run r executes during the step: it stands between its start and its end,
\* or the step is its start
Executing(r) ==
    \/ pc[r] \in {"pub0", "collab", "pub100", "pubdone", "puberr"}
    \/ pc[r] = "scheduled" /\ pc'[r] # "scheduled"

\* C17: in every step taken while a run resumed from stage S executes, the
\* persisted records and the checkpoints of the stages before S are left as
\* they are, and the run has invoked no collaborator of a stage before S.
C17_PrefixUntouched ==
    [][\A r \in Runs :
          Executing(r) =>
              \A i \in 1..(start_stage_id(r) - 1) :
                 /\ (state # NoState /\ state' # NoState) =>
                        state'.stages[i] = state.stages[i]
                 /\ checkpoint'[get_stage_name(i)] = checkpoint[get_stage_name(i)]
                 /\ get_stage_name(i) \notin run'[r].invoked]_vars

\* reprocess_video accepts a request for stage_name: a history record exists,
\* the name is a stage and the stages before it are completed
RetryAccepted(stage_name) ==
    /\ history.exists
    /\ stage_name \in StageNames
    /\ can_start_from_stage(state, stage_name)

\* C18: when a run in which the collaborator of stage k raised has made its
\* last write, a retry from stage k is accepted by reprocess_video.
C18_RetryAfterFailure ==
    \A r \in Runs :
        (pc[r] = "puberr" /\ run[r].raised # NoRaise) =>
            RetryAccepted(get_stage_name(run[r].raised.stage))

\* C19: every persisted state has at most one failed record, and no record
\* after a failed one is completed or in_progress.
C19_OneFailurePoint ==
    state # NoState =>
        /\ Cardinality({i \in StageIds : state.stages[i].status = FAILED}) <= 1
        /\ \A k \in StageIds :
              state.stages[k].status = FAILED =>
                  \A i \in StageIds :
                      i > k => state.stages[i].status \notin {COMPLETED, IN_PROGRESS}

\* C26: a run stands at its done event only with all seven records persisted
\* as completed; once the final stage is persisted as completed the run goes
\* on to its done event and not to an error event; and a run that has
\* emitted its done event emits no error event after it.
C26_DoneIsTerminal ==
    [][\A r \in Runs :
          /\ pc'[r] = "pubdone" =>
                \A i \in StageIds : state'.stages[i].status = COMPLETED
          /\ (pc[r] = "pub100" /\ cur[r] = NumStages) =>
                pc'[r] \in {"pub100", "pubdone"}
          /\ pc[r] = "pubdone" => pc'[r] \in {"pubdone", "ended"}]_vars

\* C27: a run in which the recognition or the alignment collaborator raised
\* (for a segment of stage asr or align) stands at its error event until it
\* ends, and has begun no stage after the one that raised.
C27_SegmentRaiseFailsStage ==
    \A r \in Runs :
        (/\ run[r].raised # NoRaise
         /\ get_stage_name(run[r].raised.stage) \in SegmentStages) =>
            /\ pc[r] = "puberr"
            /\ \A i \in run[r].started : i <= run[r].raised.stage

\* the operations of one stage, in the order the claim gives them
StageOrder ==
    <<"in_progress", "pub0", "invoke", "checkpoint", "completed", "pub100">>

\* what the log of run r holds for stage k
LogOf(r, k) ==
    LET IsK(e) == e[2] = k
        entries == SelectSeq(run[r].log, IsK)
    IN [i \in 1..Len(entries) |-> entries[i][1]]

\* C28: for every stage of every run, what the run has done for the stage so
\* far is a prefix of: status in_progress persisted, 0% event published,
\* collaborator invoked, checkpoint persisted, status completed persisted,
\* 100% event published; and the run has gone through its stages in
\* increasing order, each finished before the next is begun.
C28_StageStepOrder ==
    \A r \in Runs :
        /\ \A k \in StageIds :
              LogOf(r, k) = SubSeq(StageOrder, 1, Len(LogOf(r, k)))
        /\ \A i \in 1..(Len(run[r].log) - 1) :
              \/ run[r].log[i + 1][2] = run[r].log[i][2]
              \/ /\ run[r].log[i + 1][2] = run[r].log[i][2] + 1
                 /\ run[r].log[i][1] = "pub100"

\* a run that has taken a stage through its six steps and begun the next
C28_Witness ==
    \E r \in Runs :
        /\ LogOf(r, 3) = StageOrder
        /\ LogOf(r, 4) = <<"in_progress", "pub0">>
        /\ pc[r] = "collab"

\* C29: every record persisted as completed refers to the checkpoint of its
\* stage (stage_<id>_<name>.json) and load_stage_result returns a payload for
\* the stage; every record persisted as in_progress carries no error.
C29_CompletedHasCheckpoint ==
    state # NoState =>
        \A i \in StageIds :
            /\ state.stages[i].status = COMPLETED =>
                  /\ state.stages[i].result_file =
                         <<STAGE_DEFINITIONS[i].id, STAGE_DEFINITIONS[i].name>>
                  /\ load_stage_result(checkpoint, get_stage_name(i), TRUE) # NoPayload
            /\ state.stages[i].status = IN_PROGRESS =>
                  state.stages[i].error = None

\* after a run that failed, a later run has begun a stage whose predecessor
\* is completed
C29_Witness ==
    /\ state # NoState
    /\ faults = 1
    /\ \E r \in Runs : pc[r] = "ended"
    /\ \E q \in Runs :
          /\ pc[q] = "collab"
          /\ cur[q] > 1
          /\ state.stages[cur[q]].status = IN_PROGRESS
          /\ state.stages[cur[q] - 1].status = COMPLETED
          /\ state.stages[cur[q] - 1].result_file # NoFile

\* C37: at most one run of the task is scheduled or executing at any time.
C37_OneActiveRun ==
    Cardinality({r \in Runs : pc[r] \notin {"idle", "ended"}}) <= 1

\* C34: whenever every run of the task that has begun has ended (its done or
\* error event emitted), no record of the persisted state is in_progress.
C34_NoInProgressLeft ==
    (/\ state # NoState
     /\ \A r \in Runs : pc[r] \in {"idle", "scheduled", "ended"}) =>
        \A i \in StageIds : state.stages[i].status # IN_PROGRESS

\* C35: while one run of the task is executing, every record of the persisted
\* state that is in_progress is the stage that the tracker
\* processing_tasks[task_id]["stage"] names.
C35_TrackerNamesInProgress ==
    (/\ state # NoState
     /\ processing_tasks # NoTask
     /\ Cardinality({r \in Runs : pc[r] \notin {"idle", "ended"}}) = 1) =>
        \A i \in StageIds :
            state.stages[i].status = IN_PROGRESS =>
                processing_tasks.stage = get_stage_name(i)

(***************************************************************************)
(* SpecStore: the methods of IntermediateService called directly, in any   *)
(* order, on the state file of one task.                                   *)
(***************************************************************************)
\* stage names of the calls: two stages, and a name that is no stage
StoreStages == {"extract_audio", "asr", "no_such_stage"}
StoreErrors == {None, "boom"}
\* what the calls leave alone
storeFrame == <<checkpoint, history, processing_tasks, pc, cur, start_stage,
                user_hotwords, run, runs, faults, plan, hub, words, snap, file, two>>

\* initialize_pipeline(task_id, video_name, video_path, hw)
InitializePipeline(hw) ==
    /\ state' = initialize_pipeline(hw, None)
    /\ call' = [op |-> "initialize_pipeline", before |-> state]
    /\ UNCHANGED storeFrame

\* update_stage_status(stage_name, status, error)
UpdateStageStatus(stage_name, status, error) ==
    /\ state' = update_stage_status(state, stage_name, status, error, Stamp)
    /\ call' = [op |-> "update_stage_status", before |-> state]
    /\ UNCHANGED storeFrame

\* mark_stages_for_reprocess(stage_name)
MarkStagesForReprocess(stage_name) ==
    /\ state' = mark_stages_for_reprocess(state, stage_name)
    /\ call' = [op |-> "mark_stages_for_reprocess", before |-> state]
    /\ UNCHANGED storeFrame

\* update_duration(duration)
UpdateDuration ==
    /\ state' = update_duration(state, "known")
    /\ call' = [op |-> "update_duration", before |-> state]
    /\ UNCHANGED storeFrame

NextStore ==
    \/ \E hw \in HotwordChoices : InitializePipeline(hw)
    \/ \E n \in StoreStages, status \in StageStatus, error \in StoreErrors :
          UpdateStageStatus(n, status, error)
    \/ \E n \in StoreStages : MarkStagesForReprocess(n)
    \/ UpdateDuration

\* nothing persisted, no call made
InitStore ==
    /\ InitFresh
    /\ InitRuns
    /\ plan = PlanIdle
    /\ hub = HubIdle
    /\ words = WordsIdle
    /\ snap = SnapIdle
    /\ call = NoCall
    /\ file = FileIdle
    /\ two = TwoIdle

SpecStore == InitStore /\ [][NextStore]_vars

\* C20: initialize_pipeline called on an existing persisted state leaves it
\* unchanged; called without one it creates a state with all seven records
\* pending.
C20_InitializeOnlyOnce ==
    call.op = "initialize_pipeline" =>
        IF call.before # NoState
        THEN state = call.before
        ELSE /\ state # NoState
             /\ \A i \in StageIds : state.stages[i].status = PENDING

(***************************************************************************)
(* SpecDisk: the checkpoint files and the state file of one task under     *)
(* direct calls of save_stage_result, load_stage_result,                   *)
(* load_pipeline_state, update_stage_status and requests for               *)
(* get_pipeline_state.  The record call holds the last call:               *)
(*                                                                         *)
(*   op, name   the operation and the stage name it was given              *)
(*   result     what it returned, or the exception it raised               *)
(*   before     the state file before the call                             *)
(*   cp_before  the checkpoint files before the call                       *)
(*   last       per stage name, the payload of the last save that returned *)
(***************************************************************************)
DiskPayloads == {Payload(1), Payload(2)}
\* HTTPException(status_code=404)
NotFound == [status_code |-> 404]
DiskStatuses == {IN_PROGRESS, COMPLETED}
diskFrame == <<history, processing_tasks, pc, cur, start_stage, user_hotwords,
               run, runs, faults, plan, hub, words, snap, file, two>>

Called(op, name, result) ==
    [call EXCEPT !.op = op, !.name = name, !.result = result,
                 !.before = state, !.cp_before = checkpoint]

\* save_stage_result(stage_name, data): ValueError for a name that is no
\* stage, otherwise the file of the stage is written
SaveStageResult(stage_name, data) ==
    /\ IF get_stage_id(stage_name) = 0
       THEN /\ checkpoint' = checkpoint
            /\ call' = Called("save_stage_result", stage_name, "ValueError")
       ELSE /\ checkpoint' = save_stage_result(checkpoint, stage_name, data)
            /\ call' = [Called("save_stage_result", stage_name, "returned")
                           EXCEPT !.last[stage_name] = data]
    /\ UNCHANGED <<state, diskFrame>>

\* load_stage_result(stage_name)
LoadStageResult(stage_name) ==
    /\ call' = Called("load_stage_result", stage_name,
                      load_stage_result(checkpoint, stage_name, TRUE))
    /\ UNCHANGED <<state, checkpoint, diskFrame>>

\* load_pipeline_state()
LoadPipelineState ==
    /\ call' = Called("load_pipeline_state", None, load_pipeline_state(state))
    /\ UNCHANGED <<state, checkpoint, diskFrame>>

\* update_stage_status(stage_name, status)
WriteStageStatus(stage_name, status) ==
    /\ state' = update_stage_status(state, stage_name, status, None, Stamp)
    /\ call' = Called("update_stage_status", stage_name, None)
    /\ UNCHANGED <<checkpoint, diskFrame>>

\* GET /pipeline/{task_id}/state: 404 without a history record, otherwise
\* the stored state, or the fallback state, which is saved
GetPipelineState ==
    /\ IF ~history.exists
       THEN /\ state' = state
            /\ call' = Called("get_pipeline_state", None, NotFound)
       ELSE /\ state' = IF NoStateLoaded(state)
                        THEN fallback_state(checkpoint, history)
                        ELSE state
            /\ call' = Called("get_pipeline_state", None, state')
    /\ UNCHANGED <<checkpoint, diskFrame>>

\* a task with or without a history record, with no state file or one that
\* cannot be parsed, and no checkpoint file
InitDisk ==
    /\ state \in {NoState, Corrupt}
    /\ checkpoint = [n \in StageNames |-> NoPayload]
    /\ history \in {[exists |-> FALSE, created_at |-> NoTime],
                    [exists |-> TRUE, created_at |-> Stamp]}
    /\ processing_tasks = NoTask
    /\ InitRuns
    /\ plan = PlanIdle
    /\ hub = HubIdle
    /\ words = WordsIdle
    /\ snap = SnapIdle
    /\ call = [op |-> "none", name |-> None, result |-> None,
               before |-> NoState,
               cp_before |-> [n \in StageNames |-> NoPayload],
               last |-> [n \in StageNames |-> NoPayload]]
    /\ file = FileIdle
    /\ two = TwoIdle

NextDisk ==
    \/ \E n \in StoreStages, d \in DiskPayloads : SaveStageResult(n, d)
    \/ \E n \in StoreStages : LoadStageResult(n)
    \/ LoadPipelineState
    \/ \E n \in StoreStages, status \in DiskStatuses : WriteStageStatus(n, status)
    \/ GetPipelineState

SpecDisk == InitDisk /\ [][NextDisk]_vars

\* C31: load_stage_result of a stage name returns the payload of the last
\* save_stage_result of that name that returned, and None if there was none
\* or the name is no stage; save_stage_result changes no other checkpoint,
\* and for a name that is no stage it raises and writes nothing.
C31_LastWriteWins ==
    /\ call.op = "load_stage_result" =>
          /\ call.result = IF get_stage_id(call.name) = 0
                           THEN NoPayload ELSE call.last[call.name]
          /\ checkpoint = call.cp_before
    /\ call.op = "save_stage_result" =>
          IF get_stage_id(call.name) = 0
          THEN call.result = "ValueError" /\ checkpoint = call.cp_before
          ELSE /\ call.result = "returned"
               /\ \A n \in StageNames \ {call.name} :
                     checkpoint[n] = call.cp_before[n]

\* a load that returns the second payload saved for the stage, another
\* stage holding its own payload
C31_Witness ==
    /\ call.op = "load_stage_result"
    /\ call.name = "asr"
    /\ call.result = Payload(2)
    /\ call.cp_before["extract_audio"] = Payload(1)

RECURSIVE SilenceFrom(_, _, _)
SilenceFrom(ts, k, prev_end) ==
    IF k > Len(ts)
    THEN <<>>
    ELSE (IF ts[k].start > prev_end
          THEN << [start |-> prev_end, end |-> ts[k].start] >>
          ELSE <<>>)
         \o SilenceFrom(ts, k + 1, ts[k].end)

\* silence_intervals: the gaps between the speech intervals and after the last
silence_intervals(ts, total_duration) ==
    LET prev_end == IF Len(ts) = 0 THEN 0 ELSE ts[Len(ts)].end
    IN SilenceFrom(ts, 1, 0)
       \o (IF prev_end < total_duration
           THEN << [start |-> prev_end, end |-> total_duration] >>
           ELSE <<>>)

\* a walk that cuts at the midpoint of every silent gap, whatever the length
\* of the segment so far (the variant the test against max_duration rules out)
RECURSIVE CutAtEverySilence(_, _, _, _, _)
CutAtEverySilence(sil, k, split_points, current_segment_start, max_duration) ==
    IF k > Len(sil)
    THEN [split_points |-> split_points,
          current_segment_start |-> current_segment_start]
    ELSE LET silence_mid == (sil[k].start + sil[k].end) \div 2
         IN CutAtEverySilence(sil, k + 1, Append(split_points, silence_mid),
                              silence_mid, max_duration)

\* a walk that also cuts when the midpoint lies exactly max_duration after the
\* start of the segment (">=" for ">": the variant the strict test rules out)
RECURSIVE CutAtSilenceInclusive(_, _, _, _, _)
CutAtSilenceInclusive(sil, k, split_points, current_segment_start, max_duration) ==
    IF k > Len(sil)
    THEN [split_points |-> split_points,
          current_segment_start |-> current_segment_start]
    ELSE LET silence_mid == (sil[k].start + sil[k].end) \div 2
         IN IF silence_mid - current_segment_start >= max_duration
            THEN CutAtSilenceInclusive(sil, k + 1, Append(split_points, silence_mid),
                                       silence_mid, max_duration)
            ELSE CutAtSilenceInclusive(sil, k + 1, split_points,
                                       current_segment_start, max_duration)

\* the loop over the silent gaps sil[k..]: a cut at the midpoint of a gap once
\* the midpoint lies more than max_duration after the start of the segment
RECURSIVE CutAtSilence(_, _, _, _, _)
CutAtSilence(sil, k, split_points, current_segment_start, max_duration) ==
    IF k > Len(sil)
    THEN [split_points |-> split_points,
          current_segment_start |-> current_segment_start]
    ELSE LET silence_mid == (sil[k].start + sil[k].end) \div 2
         IN IF silence_mid - current_segment_start > max_duration
            THEN CutAtSilence(sil, k + 1, Append(split_points, silence_mid),
                              silence_mid, max_duration)
            ELSE CutAtSilence(sil, k + 1, split_points,
                              current_segment_start, max_duration)

\* the forced cuts with a loop that also runs when the next cut falls exactly
\* on total_duration ("<=" for "<"): the variant the strict bound rules out
RECURSIVE ForcedCutsInclusive(_, _, _, _)
ForcedCutsInclusive(split_points, current_segment_start, total_duration, max_duration) ==
    IF current_segment_start + max_duration <= total_duration
    THEN ForcedCutsInclusive(Append(split_points, current_segment_start + max_duration),
                             current_segment_start + max_duration,
                             total_duration, max_duration)
    ELSE split_points

\* "while current_segment_start + max_duration < total_duration": forced cuts
\* every max_duration when the last segment is still too long
RECURSIVE ForcedCuts(_, _, _, _)
ForcedCuts(split_points, current_segment_start, total_duration, max_duration) ==
    IF current_segment_start + max_duration < total_duration
    THEN ForcedCuts(Append(split_points, current_segment_start + max_duration),
                    current_segment_start + max_duration,
                    total_duration, max_duration)
    ELSE split_points

\* a planner without the forced cuts of the tail (the variant the fallback
\* for a tail without usable silence rules out)
calculate_split_points_silence_only(speech_timestamps, total_duration, max_duration) ==
    LET cut == CutAtSilence(silence_intervals(speech_timestamps, total_duration),
                            1, <<0>>, 0, max_duration)
    IN Append(cut.split_points, total_duration)

\* _calculate_split_points
calculate_split_points(speech_timestamps, total_duration, max_duration) ==
    LET cut == CutAtSilence(silence_intervals(speech_timestamps, total_duration),
                            1, <<0>>, 0, max_duration)
        forced == IF total_duration - cut.current_segment_start > max_duration
                  THEN ForcedCuts(cut.split_points, cut.current_segment_start,
                                  total_duration, max_duration)
                  ELSE cut.split_points
    IN Append(forced, total_duration)

\* segment_audio: the segments cut from the audio
segment_audio(speech_timestamps, total_duration, max_duration) ==
    IF total_duration <= max_duration
    THEN << [index |-> 0, start_time |-> 0, end_time |-> total_duration] >>
    ELSE LET split_points == calculate_split_points(speech_timestamps,
                                                    total_duration, max_duration)
         IN [ i \in 1..(Len(split_points) - 1) |->
                [index |-> i - 1,
                 start_time |-> split_points[i],
                 end_time |-> split_points[i + 1]] ]

\* inputs: whole units as even numbers of half units
TimePoints == {2 * k : k \in 0..MaxUnits}
Ceilings == {2 * k : k \in 1..MaxCeiling}
SpeechIntervals == { iv \in [start : TimePoints, end : TimePoints] : iv.start < iv.end }
SpeechLists(total_duration) ==
    { ts \in UNION { [1..n -> SpeechIntervals] : n \in 0..MaxSpeech } :
        /\ \A i \in 1..Len(ts) : ts[i].end <= total_duration
        /\ \A i \in 1..(Len(ts) - 1) : ts[i].end <= ts[i + 1].start }

NoCuts == <<>>

\* a plan not yet computed for the given inputs
PlanInput(ts, total, ceiling) ==
    [phase |-> "input", speech_timestamps |-> ts,
     total_duration |-> total, max_segment_duration |-> ceiling,
     split_points |-> NoCuts, segments |-> NoCuts,
     silence_cuts |-> NoCuts, current_segment_start |-> 0]

\* the recording of the worked example, in half seconds: 1200 s of speech
\* with one silent gap from 630 s to 670 s, and a ceiling of 600 s
ExampleRecording ==
    PlanInput(<< [start |-> 0, end |-> 1260], [start |-> 1340, end |-> 2400] >>,
              2400, 1200)

InitPlan ==
    /\ InitFresh
    /\ InitRuns
    /\ hub = HubIdle
    /\ words = WordsIdle
    /\ snap = SnapIdle
    /\ call = NoCall
    /\ file = FileIdle
    /\ two = TwoIdle
    /\ \/ \E total \in TimePoints \ {0}, ceiling \in Ceilings :
          \E ts \in SpeechLists(total) : plan = PlanInput(ts, total, ceiling)
       \/ plan = ExampleRecording

\* a call of _calculate_split_points on the inputs
CalculateSplitPoints ==
    /\ plan.phase = "input"
    /\ LET walk == CutAtSilence(silence_intervals(plan.speech_timestamps,
                                                     plan.total_duration),
                                1, <<0>>, 0, plan.max_segment_duration)
       IN plan' = [plan EXCEPT
                     !.phase = "planned",
                     !.split_points = calculate_split_points(plan.speech_timestamps,
                                          plan.total_duration, plan.max_segment_duration),
                     \* split_points and current_segment_start after the first loop
                     !.silence_cuts = walk.split_points,
                     !.current_segment_start = walk.current_segment_start]
    /\ UNCHANGED <<pipeVars, hub>>

\* a call of segment_audio on the inputs
SegmentAudio ==
    /\ plan.phase = "input"
    /\ plan' = [plan EXCEPT
                  !.phase = "segmented",
                  !.segments = segment_audio(plan.speech_timestamps,
                                   plan.total_duration, plan.max_segment_duration)]
    /\ UNCHANGED <<pipeVars, hub>>

NextPlan ==
    \/ CalculateSplitPoints
    \/ SegmentAudio

SpecPlan == InitPlan /\ [][NextPlan]_vars

\* C6: consecutive cut points differ by at most the ceiling.
C6_SegmentsWithinCeiling ==
    plan.phase = "planned" =>
        \A i \in 1..(Len(plan.split_points) - 1) :
            plan.split_points[i + 1] - plan.split_points[i] <= plan.max_segment_duration

\* C7: the cut points are strictly increasing from 0 to the total duration,
\* and the segments built from them have end_time > start_time, indices
\* 0..n-1, are contiguous and cover [0, total_duration].
C7_CutPointsWellFormed ==
    /\ plan.phase = "planned" =>
          /\ Len(plan.split_points) >= 2
          /\ plan.split_points[1] = 0
          /\ plan.split_points[Len(plan.split_points)] = plan.total_duration
          /\ \A i \in 1..(Len(plan.split_points) - 1) :
                plan.split_points[i] < plan.split_points[i + 1]
    /\ plan.phase = "segmented" =>
          /\ Len(plan.segments) >= 1
          /\ plan.segments[1].start_time = 0
          /\ plan.segments[Len(plan.segments)].end_time = plan.total_duration
          /\ \A i \in 1..Len(plan.segments) :
                /\ plan.segments[i].index = i - 1
                /\ plan.segments[i].end_time > plan.segments[i].start_time
          /\ \A i \in 1..(Len(plan.segments) - 1) :
                plan.segments[i].end_time = plan.segments[i + 1].start_time

\* a plan with a cut at a silence and a forced cut, and the segments of an
\* audio longer than the ceiling
C7_Witness ==
    \/ /\ plan.phase = "planned"
       /\ Len(plan.split_points) >= 4
       /\ Len(plan.speech_timestamps) >= 1
    \/ /\ plan.phase = "segmented"
       /\ Len(plan.segments) >= 3

\* C21: for an audio not longer than the ceiling the cut points are exactly
\* 0 and the total duration, and the segments are the one segment from 0 to
\* the total duration, whatever the speech intervals.
C21_ShortAudioOneSegment ==
    (plan.phase # "off" /\ plan.total_duration <= plan.max_segment_duration) =>
        /\ plan.phase = "planned" =>
              plan.split_points = <<0, plan.total_duration>>
        /\ plan.phase = "segmented" =>
              plan.segments = << [index |-> 0, start_time |-> 0,
                                  end_time |-> plan.total_duration] >>

\* the cut points of a short audio with silent gaps between its speech
C21_Witness ==
    /\ plan.phase = "planned"
    /\ plan.total_duration <= plan.max_segment_duration
    /\ Len(silence_intervals(plan.speech_timestamps, plan.total_duration)) >= 2
    /\ Len(plan.split_points) = 2

\* the midpoint of a silent gap
Midpoint(gap) == (gap.start + gap.end) \div 2

\* C22: after the walk over the silent gaps, a gap's midpoint is a cut exactly
\* when it lies more than the ceiling after the start of the segment at that
\* gap (the last cut before it); the segment start ends as the last cut; every
\* cut of the walk is the midpoint of a gap and lies inside no speech interval;
\* and the recording of the example is cut at 0, 650 s and 1200 s.
C22_SilenceWalk ==
    plan.phase = "planned" =>
        LET sil == silence_intervals(plan.speech_timestamps, plan.total_duration)
            w == plan.silence_cuts
            cuts == {w[i] : i \in 1..Len(w)}
            before(k) == {c \in cuts : c < Midpoint(sil[k])}
            segment_start(k) == CHOOSE c \in before(k) : \A d \in before(k) : d <= c
        IN /\ w[1] = 0
           /\ \A i \in 1..(Len(w) - 1) : w[i] < w[i + 1]
           /\ plan.current_segment_start = w[Len(w)]
           /\ \A k \in 1..Len(sil) :
                 Midpoint(sil[k]) \in cuts <=>
                     Midpoint(sil[k]) - segment_start(k) > plan.max_segment_duration
           /\ \A i \in 2..Len(w) :
                 /\ \E k \in 1..Len(sil) : w[i] = Midpoint(sil[k])
                 /\ \A j \in 1..Len(plan.speech_timestamps) :
                       ~(/\ plan.speech_timestamps[j].start < w[i]
                         /\ w[i] < plan.speech_timestamps[j].end)
           /\ plan.speech_timestamps = ExampleRecording.speech_timestamps =>
                 plan.split_points = <<0, 1300, 2400>>

\* a walk over three silent gaps that cuts at two of them
C22_Witness ==
    /\ plan.phase = "planned"
    /\ Len(plan.silence_cuts) = 3
    /\ Len(silence_intervals(plan.speech_timestamps, plan.total_duration)) = 3

\* C30: the cut points are the cuts of the silence walk, then (if the tail
\* after the walk is longer than the ceiling) the cuts at segment_start +
\* i * ceiling below the total duration, then the total duration; and every
\* segment from the last cut of the walk on is at most the ceiling long.
C30_ForcedTailCuts ==
    plan.phase = "planned" =>
        LET s == plan.current_segment_start
            n == Len(plan.silence_cuts)
            forced == { s + i * plan.max_segment_duration : i \in 1..plan.total_duration }
                        \cap 0..(plan.total_duration - 1)
        IN /\ SubSeq(plan.split_points, 1, n) = plan.silence_cuts
           /\ plan.split_points[Len(plan.split_points)] = plan.total_duration
           /\ { plan.split_points[i] : i \in (n + 1)..(Len(plan.split_points) - 1) } =
                 (IF plan.total_duration - s > plan.max_segment_duration
                  THEN forced ELSE {})
           /\ \A i \in n..(Len(plan.split_points) - 1) :
                 /\ plan.split_points[i] < plan.split_points[i + 1]
                 /\ plan.split_points[i + 1] - plan.split_points[i]
                        <= plan.max_segment_duration

\* a plan with a cut at a silence followed by two forced cuts
C30_Witness ==
    /\ plan.phase = "planned"
    /\ Len(plan.silence_cuts) >= 2
    /\ Len(plan.split_points) >= Len(plan.silence_cuts) + 3

(***************************************************************************)
(* SpecHub: the ConnectionManager (routers/websocket.py) for one task,     *)
(* with a publisher (send_progress called by the run) and websocket        *)
(* handlers that connect and disconnect while a publish awaits a send.     *)
(*                                                                         *)
(*   key          the task id is a key of active_connections               *)
(*   conns        the set stored under the key ({} without the key)        *)
(*   life         each websocket: "new", "open" (connected), "closed"      *)
(*   stalled      websockets whose peer has stopped reading: a send to     *)
(*                them never completes                                     *)
(*   delivered    the events each websocket has received                   *)
(*   event        number of the publish in flight, or of the last one      *)
(*   awaiting     the websocket whose send_json is awaited                 *)
(*   visited      websockets the loop has already yielded                  *)
(*   disconnected websockets whose send raised in this publish             *)
(*   size0        size of the set when the loop began                      *)
(*   detached     the set the loop iterates was deleted from the dict      *)
(*   last         the outcome of the last publish                          *)
(***************************************************************************)
Subs == 1..MaxSubs
Events == 1..MaxEvents

NoPublish == [event |-> 0, result |-> "none", failed |-> {}, members |-> {},
              left |-> {}]

HubInit ==
    [ phase |-> "idle", key |-> FALSE, conns |-> {},
      life |-> [s \in Subs |-> "new"], stalled |-> {},
      delivered |-> [s \in Subs |-> {}], event |-> 0, awaiting |-> 0,
      visited |-> {}, disconnected |-> {}, size0 |-> 0, detached |-> FALSE,
      last |-> NoPublish ]

\* connect: the set is created if the key is missing, the websocket added
connect(s) ==
    /\ hub.phase # "off"
    /\ hub.life[s] = "new"
    /\ hub' = [hub EXCEPT !.life[s] = "open",
                          !.key = TRUE,
                          !.conns = @ \cup {s}]
    /\ UNCHANGED <<pipeVars, plan>>

\* a disconnect that closes the websocket and leaves it in the set
DisconnectedStaysMember(h, s) == [h EXCEPT !.life[s] = "closed"]

\* the manager after disconnect(s): the websocket is discarded and the key
\* deleted if the set is left empty
Disconnected(h, s) ==
    [h EXCEPT !.life[s] = "closed",
              !.conns = IF h.key THEN @ \ {s} ELSE @,
              !.key = h.key /\ (h.conns \ {s}) # {},
              !.detached = @ \/ (h.phase = "await" /\ h.key
                                 /\ (h.conns \ {s}) = {})]

\* disconnect (the "finally" of websocket_progress)
disconnect(s) ==
    /\ hub.phase # "off"
    /\ hub.life[s] = "open"
    /\ s \notin hub.stalled
    /\ hub' = Disconnected(hub, s)
    /\ UNCHANGED <<pipeVars, plan>>

\* the peer of an open websocket stops reading
Stall(s) ==
    /\ hub.phase # "off"
    /\ hub.life[s] = "open"
    /\ s \notin hub.stalled
    /\ hub' = [hub EXCEPT !.stalled = @ \cup {s}]
    /\ UNCHANGED <<pipeVars, plan>>

\* the publish ends: it returns after the cleanup loop, or raises
PublishEnds(h, result) ==
    LET left == IF result = "returned" THEN h.conns \ h.disconnected ELSE h.conns
    IN [h EXCEPT !.phase = "idle",
                 !.conns = left,
                 !.awaiting = 0, !.visited = {}, !.disconnected = {},
                 !.size0 = 0, !.detached = FALSE,
                 !.last = [event |-> h.event, result |-> result,
                           failed |-> h.disconnected, members |-> @.members,
                           left |-> left]]

\* the "for" statement asks the set iterator for the next websocket: it
\* raises RuntimeError if the size of the set has changed, ends the loop if
\* nothing is left, and otherwise yields a websocket not yet visited
IterNext(h) ==
    IF (IF h.detached THEN 0 ELSE Cardinality(h.conns)) # h.size0
    THEN {PublishEnds(h, "raised")}
    ELSE IF h.conns \ h.visited = {}
         THEN {PublishEnds(h, "returned")}
         ELSE { [h EXCEPT !.phase = "await", !.awaiting = s,
                          !.visited = @ \cup {s}] : s \in h.conns \ h.visited }

\* send_progress -> send_to_task: returns at once without the key, otherwise
\* the loop begins and runs up to its first await
send_to_task ==
    /\ hub.phase = "idle"
    /\ hub.event < MaxEvents
    /\ LET h == [hub EXCEPT !.event = @ + 1,
                            !.size0 = Cardinality(hub.conns),
                            !.last = [NoPublish EXCEPT !.members = hub.conns]]
       IN IF ~hub.key
          THEN hub' = PublishEnds(h, "returned")
          ELSE hub' \in IterNext(h)
    /\ UNCHANGED <<pipeVars, plan>>

\* the awaited send_json returns: the websocket has the event
SendReturns ==
    /\ hub.phase = "await"
    /\ hub.awaiting \notin hub.stalled
    /\ hub' \in IterNext([hub EXCEPT !.delivered[hub.awaiting] = @ \cup {hub.event}])
    /\ UNCHANGED <<pipeVars, plan>>

\* the awaited send_json raises: the websocket is noted for the cleanup
SendRaises ==
    /\ hub.phase = "await"
    /\ hub.awaiting \notin hub.stalled
    /\ hub' \in IterNext([hub EXCEPT !.disconnected = @ \cup {hub.awaiting}])
    /\ UNCHANGED <<pipeVars, plan>>

InitHub ==
    /\ InitFresh
    /\ InitRuns
    /\ plan = PlanIdle
    /\ hub = HubInit
    /\ words = WordsIdle
    /\ snap = SnapIdle
    /\ call = NoCall
    /\ file = FileIdle
    /\ two = TwoIdle

NextHub ==
    \/ \E s \in Subs : connect(s)
    \/ \E s \in Subs : disconnect(s)
    \/ \E s \in Subs : Stall(s)
    \/ send_to_task
    \/ SendReturns
    \/ SendRaises

SpecHub == InitHub /\ [][NextHub]_vars

(***************************************************************************)
(* SpecWatch: the websocket_progress handlers (routers/websocket.py,       *)
(* 155-199) of one task beside a publisher.  The record hub has two more   *)
(* fields:                                                                 *)
(*                                                                         *)
(*   at     where the handler of each websocket is: "hello" (sending the   *)
(*          "connected" message), "recv" (waiting up to 30 s for a text),  *)
(*          "pong" (answering a ping), "probe" (sending the heartbeat      *)
(*          probe after 30 s of silence), "exited"                         *)
(*   exit   why the handler exited                                         *)
(***************************************************************************)
Watchers == 1..(MaxSubs - 1)

\* an exit path of the handler: the "finally" calls disconnect before the
\* handler returns, with no await in between
Exits(s, cause) ==
    hub' = [Disconnected(hub, s) EXCEPT !.at[s] = "exited", !.exit[s] = cause]

\* the handler at position p of its code
At(s, p) == hub.phase # "off" /\ hub.life[s] = "open" /\ hub.at[s] = p

\* line 168: the "connected" message is sent
HelloSent(s) ==
    /\ At(s, "hello")
    /\ hub' = [hub EXCEPT !.at[s] = "recv"]
    /\ UNCHANGED <<pipeVars, plan>>

\* line 168: the send raises (except Exception, finally)
HelloRaises(s) ==
    /\ At(s, "hello")
    /\ Exits(s, "error")
    /\ UNCHANGED <<pipeVars, plan>>

\* lines 178-184: the client sends "ping" (any other text leaves the handler
\* where it is)
ReceivePing(s) ==
    /\ At(s, "recv")
    /\ hub' = [hub EXCEPT !.at[s] = "pong"]
    /\ UNCHANGED <<pipeVars, plan>>

\* line 185: "pong" is sent
PongSent(s) ==
    /\ At(s, "pong")
    /\ hub' = [hub EXCEPT !.at[s] = "recv"]
    /\ UNCHANGED <<pipeVars, plan>>

\* line 185: the send raises
PongRaises(s) ==
    /\ At(s, "pong")
    /\ Exits(s, "error")
    /\ UNCHANGED <<pipeVars, plan>>

\* line 178: receive_text raises WebSocketDisconnect, the client has gone
ClientDisconnects(s) ==
    /\ At(s, "recv")
    /\ Exits(s, "disconnect")
    /\ UNCHANGED <<pipeVars, plan>>

\* line 187: nothing was received for 30 s
Timeout(s) ==
    /\ At(s, "recv")
    /\ hub' = [hub EXCEPT !.at[s] = "probe"]
    /\ UNCHANGED <<pipeVars, plan>>

\* line 190: the probe is sent, the loop goes on
ProbeSent(s) ==
    /\ At(s, "probe")
    /\ hub' = [hub EXCEPT !.at[s] = "recv"]
    /\ UNCHANGED <<pipeVars, plan>>

\* lines 190-192: the probe raises, "break"
ProbeRaises(s) ==
    /\ At(s, "probe")
    /\ Exits(s, "probe")
    /\ UNCHANGED <<pipeVars, plan>>

InitWatch ==
    /\ InitFresh
    /\ InitRuns
    /\ plan = PlanIdle
    /\ hub = [ phase |-> "idle", key |-> FALSE, conns |-> {},
               life |-> [s \in Subs |-> "new"], stalled |-> {},
               delivered |-> [s \in Subs |-> {}], event |-> 0, awaiting |-> 0,
               visited |-> {}, disconnected |-> {}, size0 |-> 0,
               detached |-> FALSE, last |-> NoPublish,
               at |-> [s \in Subs |-> "hello"],
               exit |-> [s \in Subs |-> "none"] ]
    /\ words = WordsIdle
    /\ snap = SnapIdle
    /\ call = NoCall
    /\ file = FileIdle
    /\ two = TwoIdle

NextWatch ==
    \/ \E s \in Watchers : connect(s)
    \/ \E s \in Watchers : HelloSent(s)
    \/ \E s \in Watchers : HelloRaises(s)
    \/ \E s \in Watchers : ReceivePing(s)
    \/ \E s \in Watchers : PongSent(s)
    \/ \E s \in Watchers : PongRaises(s)
    \/ \E s \in Watchers : ClientDisconnects(s)
    \/ \E s \in Watchers : Timeout(s)
    \/ \E s \in Watchers : ProbeSent(s)
    \/ \E s \in Watchers : ProbeRaises(s)
    \/ send_to_task
    \/ SendReturns
    \/ SendRaises

SpecWatch == InitWatch /\ [][NextWatch]_vars

\* C33 as amended: a websocket enters the set of its task when it connects;
\* it leaves the set only when its handler exits or when a publish whose send
\* to it raised returns; every exit (client disconnect, failed probe, other
\* error) leaves it out of the set.  So a subscription whose probes succeed
\* and to which no publish fails stays in the set.
C33_MemberUntilExitOrFailedSend ==
    /\ [](\A s \in Subs : hub.life[s] = "closed" =>
              s \notin hub.conns /\ hub.exit[s] # "none")
    /\ [][\A s \in Subs :
            /\ (hub.life[s] = "new" /\ hub'.life[s] = "open")
                   => hub'.key /\ s \in hub'.conns
            /\ (s \in hub.conns /\ s \notin hub'.conns)
                   => \/ hub'.life[s] = "closed"
                      \/ /\ hub'.phase = "idle"
                         /\ hub'.last.result = "returned"
                         /\ s \in hub'.last.failed]_vars

\* C33 as stated: a websocket whose handler has not exited is in the set.
C33_MemberUntilExit ==
    \A s \in Subs : hub.phase # "off" /\ hub.life[s] = "open" => s \in hub.conns

\* a handler has exited on a failed probe while another, probed with success
\* and served by a publish, waits in the set
C33_Witness ==
    /\ hub.phase = "idle"
    /\ hub.exit[1] = "probe" /\ 1 \notin hub.conns
    /\ hub.life[2] = "open" /\ hub.at[2] = "recv" /\ 2 \in hub.conns
    /\ hub.delivered[2] # {}

(***************************************************************************)
(* SpecWords: the hotword list process_video_task builds for the           *)
(* recognition and correction collaborators (routers/video.py, 88-101).    *)
(***************************************************************************)
Terms == {"A", "B", "C"}
WordLists == UNION { [1..n -> Terms] : n \in 0..MaxWords }

\* lines 94-101: "if user_hotwords: ... elif state and state.get("hotwords"):
\* ... if filename_keywords: ..."; an empty list is false
combined_hotwords(request, persisted, filename_keywords) ==
    (IF request # <<>> THEN request
     ELSE IF persisted # <<>> THEN persisted
          ELSE <<>>)
    \o filename_keywords

InitWords ==
    /\ InitFresh
    /\ InitRuns
    /\ plan = PlanIdle
    /\ hub = HubIdle
    /\ snap = SnapIdle
    /\ call = NoCall
    /\ file = FileIdle
    /\ two = TwoIdle
    /\ \E request \in WordLists, persisted \in WordLists, derived \in WordLists :
          words = [phase |-> "input", user_hotwords |-> request,
                   hotwords |-> persisted, filename_keywords |-> derived,
                   combined_hotwords |-> <<>>]

\* the run merges the hotwords
MergeHotwords ==
    /\ words.phase = "input"
    /\ words' = [words EXCEPT
                   !.phase = "merged",
                   !.combined_hotwords =
                       combined_hotwords(words.user_hotwords, words.hotwords,
                                         words.filename_keywords)]
    /\ UNCHANGED <<state, checkpoint, history, processing_tasks, pc, cur,
                   start_stage, user_hotwords, run, runs, faults, plan, hub, snap,
                   call, file, two>>

NextWords == MergeHotwords

SpecWords == InitWords /\ [][NextWords]_vars

\* the order-preserving de-duplication of a list: each term at its first place
RECURSIVE Dedup(_)
Dedup(list) ==
    IF list = <<>>
    THEN <<>>
    ELSE LET front == Dedup(SubSeq(list, 1, Len(list) - 1))
             last == list[Len(list)]
         IN IF \E i \in 1..Len(front) : front[i] = last
            THEN front
            ELSE Append(front, last)

\* C12: the merged hotword list is the order-preserving de-duplication of
\* the request hotwords, then the persisted hotwords, then the derived
\* keywords.
C12_HotwordMergeDeduplicated ==
    words.phase = "merged" =>
        words.combined_hotwords =
            Dedup(words.user_hotwords \o words.hotwords \o words.filename_keywords)

(***************************************************************************)
(* SpecSnap: the per-stage snapshot of a progress message                  *)
(* (build_progress_message, routers/websocket.py).                         *)
(***************************************************************************)
\* "progress: 当前阶段进度 (0-100)"
MaxProgress == 100
Progresses == 0..MaxProgress

\* the stage list of the websocket module
STAGES ==
    << "extract_audio", "asr", "text_correct", "align", "subtitle",
       "section_split", "lecture_gen" >>

\* values of current_stage: the stages and the two terminal values
CurrentStages == {STAGES[i] : i \in 1..Len(STAGES)} \cup {"done", "error"}

\* the loop with every stage that is not the current one reported completed,
\* as without the flag current_found (the variant the flag rules out)
SnapshotLoopNoFlag(current_stage, progress) ==
    [ i \in 1..Len(STAGES) |->
        IF STAGES[i] = current_stage
        THEN [name |-> STAGES[i], status |-> "in_progress", progress |-> progress]
        ELSE [name |-> STAGES[i], status |-> "completed", progress |-> 100] ]

\* the loop over STAGES: current_found is true from the current stage on
SnapshotLoop(current_stage, progress) ==
    [ i \in 1..Len(STAGES) |->
        IF STAGES[i] = current_stage
        THEN [name |-> STAGES[i], status |-> "in_progress", progress |-> progress]
        ELSE IF ~(\E j \in 1..(i-1) : STAGES[j] = current_stage)
             THEN [name |-> STAGES[i], status |-> "completed", progress |-> 100]
             ELSE [name |-> STAGES[i], status |-> "pending", progress |-> 0] ]

\* build_progress_message: the "stages" of the message
build_progress_message(current_stage, progress) ==
    LET stages == SnapshotLoop(current_stage, progress)
    IN IF current_stage = "done"
       THEN [ i \in 1..Len(STAGES) |->
                [stages[i] EXCEPT !.status = "completed", !.progress = 100] ]
       ELSE IF current_stage = "error"
            THEN [ i \in 1..Len(STAGES) |->
                     IF stages[i].status = "in_progress"
                     THEN [stages[i] EXCEPT !.status = "failed"]
                     ELSE stages[i] ]
            ELSE stages

InitSnap ==
    /\ InitFresh
    /\ InitRuns
    /\ plan = PlanIdle
    /\ hub = HubIdle
    /\ words = WordsIdle
    /\ call = NoCall
    /\ file = FileIdle
    /\ two = TwoIdle
    /\ \E c \in CurrentStages, p \in Progresses :
          snap = [phase |-> "input", current_stage |-> c, progress |-> p,
                  stages |-> <<>>]

\* a call of build_progress_message on the inputs
BuildProgressMessage ==
    /\ snap.phase = "input"
    /\ snap' = [snap EXCEPT
                  !.phase = "built",
                  !.stages = build_progress_message(snap.current_stage, snap.progress)]
    /\ UNCHANGED <<state, checkpoint, history, processing_tasks, pc, cur,
                   start_stage, user_hotwords, run, runs, faults, plan, hub, words,
                   call, file, two>>

NextSnap == BuildProgressMessage

SpecSnap == InitSnap /\ [][NextSnap]_vars

\* C14: for a catalog stage c the snapshot reports the stages before c
\* completed, c in_progress with the given progress and the stages after c
\* pending; for "done" it reports all seven stages completed.
C14_SnapshotOfStage ==
    snap.phase = "built" =>
        /\ Len(snap.stages) = NumStages
        /\ snap.current_stage \in StageNames =>
              \A i \in StageIds :
                 /\ snap.stages[i].name = get_stage_name(i)
                 /\ i < get_stage_id(snap.current_stage) =>
                       snap.stages[i].status = "completed"
                 /\ i = get_stage_id(snap.current_stage) =>
                       /\ snap.stages[i].status = "in_progress"
                       /\ snap.stages[i].progress = snap.progress
                 /\ i > get_stage_id(snap.current_stage) =>
                       snap.stages[i].status = "pending"
        /\ snap.current_stage = "done" =>
              \A i \in StageIds : snap.stages[i].status = "completed"

\* the snapshot of a progress event in the middle of a stage in the middle
\* of the catalog
C14_Witness ==
    /\ snap.phase = "built"
    /\ snap.current_stage = "align"
    /\ snap.progress = 50
    /\ snap.stages[3].status = "completed"
    /\ snap.stages[5].status = "pending"

\* the snapshot of the error event of a run:
\* send_progress(task_id, "error", 0, ...)
ErrorEvent == build_progress_message("error", 0)

\* C15: when a run in which the collaborator of stage k raised stands at its
\* error event, the snapshot of that event reports stage k failed and every
\* stage after k pending.  (Checked under Spec.)
C15_ErrorSnapshot ==
    \A r \in Runs :
        (pc[r] = "puberr" /\ run[r].raised # NoRaise) =>
            /\ ErrorEvent[run[r].raised.stage].status = "failed"
            /\ \A i \in StageIds :
                  i > run[r].raised.stage => ErrorEvent[i].status = "pending"

(***************************************************************************)
(* SpecFile: pipeline_state.json under the saves of a run and the loads of *)
(* a request handler (services/intermediate_service.py).  A save opens the *)
(* file for writing, which truncates it, writes the text in chunks and     *)
(* closes it; a load tests that the file exists, then opens and parses it. *)
(* Every caller of both is a coroutine of the one event loop, and neither  *)
(* method awaits: a call that has begun runs to its return before another  *)
(* coroutine is resumed.                                                   *)
(*                                                                         *)
(*   disk      the chunks in the file, each the number of the save that    *)
(*             wrote it                                                    *)
(*   running   the call that holds the event loop: "none", "save", "load"  *)
(*   saving    number of the save that has begun and not returned (0: no)  *)
(*   saved     number of the last save that has returned                   *)
(*   loading   a load has found the file and not yet read it               *)
(*   loads     loads begun so far                                          *)
(*   result    the last load: the save whose state it returned (0: None),  *)
(*             `first` the last save returned when it began, `last` the    *)
(*             last save begun when it returned                            *)
(***************************************************************************)
\* saves and loads of the model, and chunks written by one save
MaxSaves == 4
MaxLoads == 4
MaxChunks == 3

NoResult == [value |-> 0, first |-> 0, last |-> 0, done |-> FALSE]

\* the text of save k, complete
Complete(k) == [i \in 1..MaxChunks |-> k]

\* a call running on a thread of its own would take its step at any time
\* (the variant the single event loop rules out)
MayStepOnOwnThread(f, who) == TRUE

\* the event loop resumes a coroutine only when no other call is running
MayStep(f, who) == f.running \in {"none", who}

\* json.load of the text read: the state of save k for the complete text of
\* save k, an exception (None is returned) for any other text
Parsed(text) ==
    IF \E k \in 1..MaxSaves : text = Complete(k)
    THEN text[1]
    ELSE 0

\* the state exists: save 1, by initialize_pipeline, has returned
InitFile ==
    /\ InitFresh
    /\ InitRuns
    /\ plan = PlanIdle
    /\ hub = HubIdle
    /\ words = WordsIdle
    /\ snap = SnapIdle
    /\ call = NoCall
    /\ two = TwoIdle
    /\ file = [phase |-> "on", disk |-> Complete(1), running |-> "none",
               saving |-> 0, saved |-> 1, loading |-> FALSE, loads |-> 0,
               result |-> NoResult]

\* _save_state: open(self.state_file, 'w') truncates the file
SaveOpen ==
    /\ file.phase = "on"
    /\ file.saving = 0
    /\ file.saved < MaxSaves
    /\ MayStep(file, "save")
    /\ file' = [file EXCEPT !.running = "save", !.saving = file.saved + 1,
                            !.disk = <<>>]
    /\ UNCHANGED <<pipeVars0, plan, hub, two>>

\* _save_state: json.dump writes the next chunk of the text
SaveWrite ==
    /\ file.phase = "on"
    /\ file.saving # 0
    /\ Len(file.disk) < MaxChunks
    /\ MayStep(file, "save")
    /\ file' = [file EXCEPT !.disk = Append(@, file.saving)]
    /\ UNCHANGED <<pipeVars0, plan, hub, two>>

\* _save_state: the "with" block closes the file and the method returns
SaveClose ==
    /\ file.phase = "on"
    /\ file.saving # 0
    /\ Len(file.disk) = MaxChunks
    /\ MayStep(file, "save")
    /\ file' = [file EXCEPT !.running = IF file.loading THEN "load" ELSE "none",
                            !.saved = file.saving, !.saving = 0]
    /\ UNCHANGED <<pipeVars0, plan, hub, two>>

\* load_pipeline_state: "if not self.state_file.exists(): return None"
LoadExists ==
    /\ file.phase = "on"
    /\ ~file.loading
    /\ file.loads < MaxLoads
    /\ MayStep(file, "load")
    /\ file' = [file EXCEPT !.running = "load", !.loading = TRUE,
                            !.loads = @ + 1,
                            !.result = [NoResult EXCEPT !.first = file.saved]]
    /\ UNCHANGED <<pipeVars0, plan, hub, two>>

\* load_pipeline_state: the file is opened, read and parsed; the method
\* returns the state, or None after an exception
LoadRead ==
    /\ file.phase = "on"
    /\ file.loading
    /\ MayStep(file, "load")
    /\ file' = [file EXCEPT
                  !.running = IF file.saving # 0 THEN "save" ELSE "none",
                  !.loading = FALSE,
                  !.result = [@ EXCEPT !.value = Parsed(file.disk),
                                       !.last = IF file.saving # 0
                                                THEN file.saving ELSE file.saved,
                                       !.done = TRUE]]
    /\ UNCHANGED <<pipeVars0, plan, hub, two>>

NextFile ==
    \/ SaveOpen
    \/ SaveWrite
    \/ SaveClose
    \/ LoadExists
    \/ LoadRead

SpecFile == InitFile /\ [][NextFile]_vars

Tasks == {"A", "B"}
\* websockets, and steps of the two tasks together
MaxSocks == 2
MaxSteps == 6
Socks == 1..MaxSocks
\* the stage the steps are about
TwoStage == "extract_audio"

\* an output directory named after the video alone, shared by the tasks of
\* one video (the variant the task id in the directory name rules out)
output_dir_by_video(t) == "lesson"

\* the output directory of a task: the stem of the video file, which carries
\* the task id
output_dir(t) == t

Dirs == {output_dir(t) : t \in Tasks}

InitTwo ==
    /\ InitFresh
    /\ InitRuns
    /\ plan = PlanIdle
    /\ hub = HubIdle
    /\ words = WordsIdle
    /\ snap = SnapIdle
    /\ call = NoCall
    /\ file = FileIdle
    /\ two = [phase |-> "on", steps |-> 0, last |-> "none",
              dirs |-> [d \in Dirs |->
                          [state |-> NoState,
                           checkpoint |-> [n \in StageNames |-> NoPayload]]],
              entries |-> [t \in Tasks |-> NoTask],
              conns |-> [t \in Tasks |-> {}],
              peer |-> [s \in Socks |-> "none"],
              delivered |-> [s \in Socks |-> {}]]

\* a step for task t
StepOf(t) ==
    /\ two.phase = "on"
    /\ two.steps < MaxSteps
    /\ UNCHANGED <<pipeVars0, plan, hub, file>>

\* the run of t starts: its entry is set, its state initialised or reset
TwoRunBegin(t) ==
    /\ StepOf(t)
    /\ two' = [two EXCEPT
                 !.steps = @ + 1, !.last = t,
                 !.entries[t] = TaskEntry("processing", "init"),
                 !.dirs[output_dir(t)].state =
                     PreparedState(@, TwoStage, <<>>)]

\* update_stage_status for a stage of t
TwoStageStatus(t, status) ==
    /\ StepOf(t)
    /\ two' = [two EXCEPT
                 !.steps = @ + 1, !.last = t,
                 !.dirs[output_dir(t)].state =
                     update_stage_status(@, TwoStage, status, None, Stamp)]

\* save_stage_result for a stage of t
TwoCheckpoint(t) ==
    /\ StepOf(t)
    /\ two' = [two EXCEPT
                 !.steps = @ + 1, !.last = t,
                 !.dirs[output_dir(t)].checkpoint =
                     save_stage_result(@, TwoStage, Payload(t))]

\* the run of t fails: the except block
TwoRunFails(t) ==
    /\ StepOf(t)
    /\ two.entries[t] # NoTask
    /\ two' = [two EXCEPT
                 !.steps = @ + 1, !.last = t,
                 !.dirs[output_dir(t)].state =
                     FailedState(@, [two.entries[t] EXCEPT !.stage = TwoStage],
                                 "boom", Stamp),
                 !.entries[t] = TaskEntry("failed", "error")]

\* a websocket is opened on /progress/t: connect
TwoSubscribe(t, s) ==
    /\ StepOf(t)
    /\ two.peer[s] = "none"
    /\ two' = [two EXCEPT
                 !.steps = @ + 1, !.last = t,
                 !.peer[s] = t,
                 !.conns[t] = @ \cup {s}]

\* the websocket s of task t is closed: disconnect
TwoUnsubscribe(t, s) ==
    /\ StepOf(t)
    /\ two.peer[s] = t
    /\ s \in two.conns[t]
    /\ two' = [two EXCEPT
                 !.steps = @ + 1, !.last = t,
                 !.conns[t] = @ \ {s}]

\* send_progress for t: send_to_task sends to the set under the key t
TwoPublish(t) ==
    /\ StepOf(t)
    /\ two' = [two EXCEPT
                 !.steps = @ + 1, !.last = t,
                 !.delivered = [s \in Socks |->
                                  IF s \in two.conns[t] THEN @[s] \cup {t} ELSE @[s]]]

NextTwo ==
    \/ \E t \in Tasks : TwoRunBegin(t)
    \/ \E t \in Tasks, status \in {IN_PROGRESS, COMPLETED} : TwoStageStatus(t, status)
    \/ \E t \in Tasks : TwoCheckpoint(t)
    \/ \E t \in Tasks : TwoRunFails(t)
    \/ \E t \in Tasks, s \in Socks : TwoSubscribe(t, s)
    \/ \E t \in Tasks, s \in Socks : TwoUnsubscribe(t, s)
    \/ \E t \in Tasks : TwoPublish(t)

SpecTwo == InitTwo /\ [][NextTwo]_vars

\* C25: a step for one task leaves the other task's persisted state, its
\* checkpoints, its subscriber set and its entry of processing_tasks as they
\* are, and a websocket receives only events of the task it subscribed to.
C25_TasksIsolated ==
    [][two.phase = "on" =>
         /\ \A t \in Tasks, b \in Tasks :
               (two'.last = t /\ two'.steps = two.steps + 1 /\ b # t) =>
                   /\ two'.dirs[output_dir(b)] = two.dirs[output_dir(b)]
                   /\ two'.entries[b] = two.entries[b]
                   /\ two'.conns[b] = two.conns[b]
         /\ \A s \in Socks : two'.delivered[s] \subseteq {two'.peer[s]}]_vars

\* both tasks have run, A has failed, a subscriber of A has its event and a
\* subscriber of B has none
C25_Witness ==
    /\ two.phase = "on"
    /\ two.entries["A"] = TaskEntry("failed", "error")
    /\ two.entries["B"] = TaskEntry("processing", "init")
    /\ two.dirs[output_dir("A")].state # two.dirs[output_dir("B")].state
    /\ \E s \in Socks : two.delivered[s] = {"A"}
    /\ \E s \in Socks : two.peer[s] = "B" /\ s \in two.conns["B"]
                          /\ two.delivered[s] = {}

\* C36: no publish raises, whatever connects or disconnects while it awaits
\* a send, and a subscriber that was in the set when the publish began and is
\* there when it ends, and whose send did not fail, has the event.
C36_PublishSurvivesChurn ==
    hub.last.event # 0 =>
        /\ hub.last.result = "returned"
        /\ \A s \in (hub.last.members \cap hub.last.left) \ hub.last.failed :
              hub.last.event \in hub.delivered[s]

\* C38: the task id is a key of active_connections exactly when its set of
\* subscribers is not empty.
C38_NoEmptySubscriberSet ==
    hub.phase # "off" => (hub.key <=> hub.conns # {})

\* C8: after a publish to several subscribers in which a send raised, the
\* publish has returned, every other subscriber still connected has the event,
\* and no subscriber whose send raised is left in the set.
C8_FailedSendIsolated ==
    (hub.last.failed # {} /\ Cardinality(hub.last.members) >= 2) =>
        /\ hub.last.result = "returned"
        /\ \A s \in (hub.last.members \cap hub.last.left) \ hub.last.failed :
              hub.last.event \in hub.delivered[s]
        /\ hub.last.failed \cap hub.last.left = {}

\* C9: a publish in flight can always take its next step (the awaited send
\* returns or raises), whatever its subscribers do.
C9_PublishNeverBlocked ==
    hub.phase = "await" => ENABLED (SendReturns \/ SendRaises)

====
